---- MODULE Spec2Model ----
(***************************************************************************)
(* Model of src/main.py: PiCamera.start_stream / PiCamera.stop_stream, the *)
(* coroutines that launch and tear down the raspivid | ffmpeg pipeline of  *)
(* one streaming session, together with the part of the operating system   *)
(* they talk to (process table, process groups, the stderr pipe, the child *)
(* watcher that reaps the shell).                                           *)
(*                                                                         *)
(* The coroutines run on one cooperative event loop: a coroutine runs      *)
(* without interruption by other coroutines from one await to the next     *)
(* (variable cur), while the operating system changes at any time.         *)
(***************************************************************************)
EXTENDS Naturals, Sequences, FiniteSets

\* ---------------------------------------------------------------- bounds
\* calls of start_stream / stop_stream the framework makes in one run
MaxCalls == 3
\* bytes raspistill writes to stdout and to stderr in one run
MaxOutLen == 2
MaxErrLen == 2
\* start_stream calls made with one and the same stream_config object
MaxUses == 2

\* the sessions the framework has negotiated, and the stream_config object it
\* hands to start_stream (one object, shared by the calls that reuse it)
Sessions == {1, 2}
Configs == {1}
\* Process objects: at most one per call
Handles == 1..MaxCalls
\* process identifiers the operating system hands out (and hands out again)
Pids == {1, 2}

\* session_info.get('process') of a session that has no 'process' key
None == 0
\* the process group of the accessory server itself (not one of the pipelines)
ServerPgid == 0

\* kilobit/second values the framework hands over in stream_config
KbpsInputs == {1, 2}

\* codec-profile selectors: BASELINE, MAIN and HIGH of options["video"]["codec"]
\* ["profiles"], and one selector outside that list
ProfileOrdinals == {0, 1, 2, 3}

\* image_size requests (image-width, image-height), from options["video"]
\* ["resolutions"]
ImageSizes == {[width |-> 352, height |-> 240], [width |-> 1920, height |-> 1080]}

\* bytes of the image on stdout, and bytes of the diagnostics on stderr: line
\* feed, space, "E", and the bytes of U+00A0 (194 160) and one byte (255) that
\* occurs in no UTF-8 text; none of them starts a three- or four-byte sequence
OutBytes == {216, 255}
ErrBytes == {10, 32, 69, 160, 194, 255}

SeqsUpTo(S, n) == UNION {[1..k -> S] : k \in 0..n}

\* what subprocess.run can meet: a tool that cannot be started, or a run of
\* the tool that ends with some bytes on stdout and on stderr
ToolRuns ==
    {[started |-> FALSE, stdout |-> <<>>, stderr |-> <<>>]} \cup
    [started : {TRUE}, stdout : SeqsUpTo(OutBytes, MaxOutLen),
     stderr : SeqsUpTo(ErrBytes, MaxErrLen)]

\* ---------------------------------------------------------------- constants
\* line 71: kbps to bps conversion
KbpsToBps == 1000
\* line 112: signal.SIGTERM
GracefulSignal == "SIGTERM"

VARIABLES
    config,     \* config[c]: stream_config['v_max_bitrate'] of config object c
    profile,    \* profile[c]: stream_config['v_profile_id'] of config object c
    kbps0,      \* kbps0[c]: the value of that field as the framework supplied it
    uses,       \* uses[c]: number of start_stream calls made with config object c
    ncalls,     \* number of start_stream / stop_stream calls the framework has made
    session,    \* session[s]: session_info['process'] (a handle, or None)
    proc,       \* proc[h]: the operating system's view of the pipeline of handle h
    nprocs,     \* number of Process objects created so far
    cur,        \* the session whose coroutine is running between two awaits, or 0
    pc,         \* pc[s]: position of the call in progress on session s
    op,         \* op[s]: the operation of the current / last call on s
    cfg,        \* cfg[s]: config object of the current / last start_stream on s
    cmd,        \* cmd[s]: bitrate substituted into the command rendered for s
    entry,      \* entry[s]: session[s] when the current / last call was entered
    hnd,        \* hnd[s]: local ffmpeg_process of stop_stream
    pgid,       \* pgid[s]: local pgid of stop_stream
    signals,    \* signals[s]: signals sent by the current / last stop_stream on s
    logged,     \* logged[s]: log records written by the current / last call on s
    result,     \* result[s]: how the last call on s ended
    atExpiry,   \* atExpiry[s]: state of the tracked process when wait_for resolved
    snap        \* the last get_snapshot call: its request, the tool's run, its outcome

vars == <<config, profile, kbps0, uses, ncalls, session, proc, nprocs, cur, pc, op,
          cfg, cmd, entry, hnd, pgid, signals, logged, result, atExpiry, snap>>

cfgVars == <<config, profile, kbps0, uses>>
osVars == <<proc, nprocs>>
callVars == <<op, cfg, cmd, entry, hnd, pgid, signals, logged, result, atExpiry>>

\* ---------------------------------------------------------------- OS layer
Unborn == [pid |-> 0, pgid |-> 0, st |-> "unborn", kids |-> FALSE, killed |-> FALSE]

\* a process (alive or zombie) currently carries pid p
Occupant(p) == {h \in Handles : proc[h].pid = p /\ proc[h].st \in {"alive", "zombie"}}

\* members of process group g: the shell until it is reaped, and its children
GroupMembers(g) ==
    {h \in Handles : proc[h].pgid = g /\ proc[h].st # "unborn"
                     /\ (proc[h].st \in {"alive", "zombie"} \/ proc[h].kids)}

\* a pid can be handed out again once no process and no group uses the number
PidFree(p) ==
    /\ Occupant(p) = {}
    /\ GroupMembers(p) = {}

\* os.getpgid(pid): the group of the process carrying pid; fails if there is none
GetpgidOk(p) == Occupant(p) # {}
Getpgid(p) == (CHOOSE h \in Occupant(p) : TRUE)
GetpgidOf(p) == proc[Getpgid(p)].pgid

\* os.killpg(pgid, sig) fails with ProcessLookupError when the group is empty
KillpgOk(g) == GroupMembers(g) # {}

\* mutant: start_new_session left out, the shell stays in the server's group
NewProcPgidInherited(p) == ServerPgid

\* start_new_session=True: the shell becomes leader of a new session and group
NewProcPgid(p) == p

\* the stderr pipe reaches end-of-file when the shell and its children are gone
StderrEof(h) == proc[h].st \in {"zombie", "reaped"} /\ ~proc[h].kids

\* Process.returncode is set once the child watcher has reaped the shell
ReturncodeSet(h) == proc[h].st = "reaped"

\* Process.communicate(): read stderr until end-of-file, then wait()
CommunicateDone(h) == StderrEof(h) /\ ReturncodeSet(h)

\* mutant: the forced path does not wait for the process
WaitDoneWithoutWaiting(h) == TRUE

\* Process.wait()
WaitDone(h) == ReturncodeSet(h)

\* mutant: the timeout fires although communicate() has finished
WaitForAlwaysTimesOut(h) == TRUE

\* asyncio.wait_for(fut, timeout): the timeout wins only while fut is not done
WaitForTimesOut(h) == ~CommunicateDone(h)

\* ---------------------------------------------------------------- helpers
\* stream_config['v_max_bitrate'] *= 1000
Normalize(v) == v * KbpsToBps

\* the replacement fields of FFMPEG_CMD
TemplateFields ==
    {"width", "height", "fps", "v_max_bitrate", "v_ssrc", "v_srtp_key",
     "address", "v_port"}

\* the entries of the stream_config dict that this model follows
StreamConfigOf(bitrate, ordinal) ==
    [v_max_bitrate |-> bitrate, v_profile_id |-> ordinal]

\* mutant: a template with a {profile} field, filled from a resolution table
FormatCmdWithProfile(conf) ==
    [f \in ((TemplateFields \cap DOMAIN conf) \cup {"profile"}) |->
        IF f = "profile"
        THEN IF conf.v_profile_id = 0 THEN "baseline"
             ELSE IF conf.v_profile_id = 1 THEN "main" ELSE "high"
        ELSE conf[f]]

\* self.start_stream_cmd.format(**stream_config): every replacement field of
\* the template takes the value the dict has for it at the time of the call;
\* entries of the dict that the template does not name are ignored
FormatCmd(conf) == [f \in (TemplateFields \cap DOMAIN conf) |-> conf[f]]
NoCmd == [v_max_bitrate |-> 0]

\* one os.killpg(pgid, sig) call as the operating system sees it: the signal, the
\* group it goes to, and the state the tracked process h was in at that moment
KillpgCall(sig, g, h) ==
    [sig |-> sig, scope |-> "group", target |-> g, tracked |-> proc[h].st]

\* what the event loop finds when wait_for(communicate(), timeout=2.0) resolves
ExpirySnapshot(h) == [st |-> proc[h].st, eof |-> StderrEof(h)]
NoSnapshot == [st |-> "none", eof |-> FALSE]

\* mutant: on timeout the graceful signal is sent again
ForcedSignalRetriesGraceful == "SIGTERM"

\* line 119: signal.SIGKILL
ForcedSignal == "SIGKILL"

\* no get_snapshot call has been made
NoSnap ==
    [called |-> FALSE, size |-> [width |-> 0, height |-> 0],
     run |-> [started |-> FALSE, stdout |-> <<>>, stderr |-> <<>>],
     outcome |-> "none", ret |-> <<>>, log |-> {}]

\* a call on s begins: its locals and its record of effects start empty
BeginCall(s, o) ==
    /\ op' = [op EXCEPT ![s] = o]
    /\ entry' = [entry EXCEPT ![s] = session[s]]
    /\ signals' = [signals EXCEPT ![s] = <<>>]
    /\ atExpiry' = [atExpiry EXCEPT ![s] = NoSnapshot]
    /\ ncalls < MaxCalls
    /\ ncalls' = ncalls + 1

\* the call on s ends with outcome r (a return value or the exception raised)
EndCall(s, r) ==
    /\ result' = [result EXCEPT ![s] = r]
    /\ pc' = [pc EXCEPT ![s] = "idle"]
    /\ cur' = 0

\* ---------------------------------------------------------------- initial state
InitStream ==
    /\ kbps0 \in [Configs -> KbpsInputs]
    /\ config = kbps0
    /\ ncalls = 0
    /\ uses = [c \in Configs |-> 0]
    /\ session = [s \in Sessions |-> None]
    /\ proc = [h \in Handles |-> Unborn]
    /\ nprocs = 0
    /\ cur = 0
    /\ pc = [s \in Sessions |-> "idle"]
    /\ op = [s \in Sessions |-> "none"]
    /\ cfg = [s \in Sessions |-> 0]
    /\ cmd = [s \in Sessions |-> NoCmd]
    /\ entry = [s \in Sessions |-> None]
    /\ hnd = [s \in Sessions |-> None]
    /\ pgid = [s \in Sessions |-> 0]
    /\ signals = [s \in Sessions |-> <<>>]
    /\ logged = [s \in Sessions |-> {}]
    /\ result = [s \in Sessions |-> "none"]
    /\ atExpiry = [s \in Sessions |-> NoSnapshot]
    /\ snap = NoSnap

\* the framework negotiated the first profile of the list for every config
Init ==
    /\ InitStream
    /\ profile = [c \in Configs |-> 0]

\* the framework hands over any selector
InitStart ==
    /\ InitStream
    /\ profile \in [Configs -> ProfileOrdinals]

\* ---------------------------------------------------------------- start_stream
\* lines 71-79: normalise the bitrate in place, render the command, then
\* suspend in create_subprocess_shell
StartBegin(s, c) ==
    /\ cur = 0
    /\ pc[s] = "idle"
    /\ uses[c] < MaxUses
    /\ BeginCall(s, "start")
    /\ uses' = [uses EXCEPT ![c] = @ + 1]
    /\ config' = [config EXCEPT ![c] = Normalize(@)]
    /\ cfg' = [cfg EXCEPT ![s] = c]
    /\ cmd' = [cmd EXCEPT ![s] = FormatCmd(StreamConfigOf(config'[c], profile[c]))]
    /\ hnd' = [hnd EXCEPT ![s] = None]
    /\ pgid' = [pgid EXCEPT ![s] = 0]
    /\ logged' = [logged EXCEPT ![s] = {"debug_params", "debug_cmd"}]
    /\ result' = [result EXCEPT ![s] = "pending"]
    /\ pc' = [pc EXCEPT ![s] = "spawning"]
    /\ UNCHANGED <<kbps0, profile, snap, session, proc, nprocs, cur>>

\* lines 79-83, 88-93: the shell was forked; store the Process, return True
StartSpawnOk(s) ==
    /\ cur = 0
    /\ pc[s] = "spawning"
    /\ \E p \in Pids :
        /\ PidFree(p)
        /\ proc' = [proc EXCEPT ![nprocs + 1] =
                        [pid |-> p, pgid |-> NewProcPgid(p), st |-> "alive",
                         kids |-> TRUE, killed |-> FALSE]]
    /\ nprocs' = nprocs + 1
    /\ session' = [session EXCEPT ![s] = nprocs + 1]
    /\ logged' = [logged EXCEPT ![s] = @ \cup {"info_started"}]
    /\ EndCall(s, "true")
    /\ UNCHANGED <<cfgVars, snap, ncalls, op, cfg, cmd, entry, hnd, pgid, signals, atExpiry>>

\* mutant: the except block logs the error and reports success
StartSpawnFailReturnsTrue(s) ==
    /\ cur = 0
    /\ pc[s] = "spawning"
    /\ logged' = [logged EXCEPT ![s] = @ \cup {"error_spawn"}]
    /\ EndCall(s, "true")
    /\ UNCHANGED <<cfgVars, snap, ncalls, osVars, session, op, cfg, cmd, entry, hnd, pgid,
                   signals, atExpiry>>

\* lines 84-86: create_subprocess_shell raised; log the error, return False
StartSpawnFail(s) ==
    /\ cur = 0
    /\ pc[s] = "spawning"
    /\ logged' = [logged EXCEPT ![s] = @ \cup {"error_spawn"}]
    /\ EndCall(s, "false")
    /\ UNCHANGED <<cfgVars, snap, ncalls, osVars, session, op, cfg, cmd, entry, hnd, pgid,
                   signals, atExpiry>>

\* ---------------------------------------------------------------- stop_stream
\* lines 106-108: read the handle, resolve its process group
StopResolve(s) ==
    /\ cur = 0
    /\ pc[s] = "idle"
    /\ BeginCall(s, "stop")
    /\ hnd' = [hnd EXCEPT ![s] = session[s]]
    /\ logged' = [logged EXCEPT ![s] = {}]
    /\ IF session[s] = None
       THEN \* line 108: None has no attribute pid
            /\ pgid' = [pgid EXCEPT ![s] = 0]
            /\ result' = [result EXCEPT ![s] = "AttributeError"]
            /\ UNCHANGED <<pc, cur>>
       ELSE IF ~GetpgidOk(proc[session[s]].pid)
       THEN \* line 108: os.getpgid raises, no such process
            /\ pgid' = [pgid EXCEPT ![s] = 0]
            /\ result' = [result EXCEPT ![s] = "ProcessLookupError"]
            /\ UNCHANGED <<pc, cur>>
       ELSE /\ pgid' = [pgid EXCEPT ![s] = GetpgidOf(proc[session[s]].pid)]
            /\ result' = [result EXCEPT ![s] = "pending"]
            /\ pc' = [pc EXCEPT ![s] = "sigterm"]
            /\ cur' = s
    /\ UNCHANGED <<cfgVars, snap, osVars, session, cfg, cmd>>

\* lines 109-114, 122-123: signal the group, then suspend in
\* wait_for(communicate(), timeout=2.0)
StopSigterm(s) ==
    /\ cur = s
    /\ pc[s] = "sigterm"
    /\ IF hnd[s] = None
       THEN \* lines 122-123: no process on the session, warn and return
            /\ logged' = [logged EXCEPT ![s] = @ \cup {"warning_no_process"}]
            /\ EndCall(s, "returned")
            /\ UNCHANGED signals
       ELSE IF KillpgOk(pgid[s])
       THEN /\ logged' = [logged EXCEPT ![s] = @ \cup {"info_stopping"}]
            /\ signals' = [signals EXCEPT ![s] =
                               Append(@, KillpgCall(GracefulSignal, pgid[s], hnd[s]))]
            /\ pc' = [pc EXCEPT ![s] = "waitGraceful"]
            /\ cur' = 0
            /\ UNCHANGED result
       ELSE \* line 112: os.killpg raises, only TimeoutError is caught
            /\ logged' = [logged EXCEPT ![s] = @ \cup {"info_stopping"}]
            /\ EndCall(s, "ProcessLookupError")
            /\ UNCHANGED signals
    /\ UNCHANGED <<cfgVars, snap, ncalls, osVars, session, op, cfg, cmd, entry, hnd, pgid,
                   atExpiry>>

\* lines 113-115, 121: communicate() finished within the bound
StopGracefulDone(s) ==
    /\ cur = 0
    /\ pc[s] = "waitGraceful"
    /\ CommunicateDone(hnd[s])
    /\ atExpiry' = [atExpiry EXCEPT ![s] = ExpirySnapshot(hnd[s])]
    /\ logged' = [logged EXCEPT ![s] = @ \cup {"debug_stderr", "debug_stopped"}]
    /\ EndCall(s, "returned")
    /\ UNCHANGED <<cfgVars, snap, ncalls, osVars, session, op, cfg, cmd, entry, hnd, pgid,
                   signals>>

\* lines 116-118: the 2.0 s ran out before communicate() finished
StopTimeout(s) ==
    /\ cur = 0
    /\ pc[s] = "waitGraceful"
    /\ WaitForTimesOut(hnd[s])
    /\ atExpiry' = [atExpiry EXCEPT ![s] = ExpirySnapshot(hnd[s])]
    /\ logged' = [logged EXCEPT ![s] = @ \cup {"error_timeout"}]
    /\ pc' = [pc EXCEPT ![s] = "sigkill"]
    /\ cur' = s
    /\ UNCHANGED <<cfgVars, snap, ncalls, osVars, session, op, cfg, cmd, entry, hnd, pgid,
                   signals, result>>

\* mutant: the forced path waits for the process without yielding to the loop
StopSigkillBlocking(s) ==
    /\ cur = s
    /\ pc[s] = "sigkill"
    /\ IF KillpgOk(pgid[s])
       THEN /\ signals' = [signals EXCEPT ![s] =
                               Append(@, KillpgCall(ForcedSignal, pgid[s], hnd[s]))]
            /\ proc' = [h \in Handles |->
                            IF h \in GroupMembers(pgid[s])
                            THEN [proc[h] EXCEPT !.killed = TRUE]
                            ELSE proc[h]]
            /\ pc' = [pc EXCEPT ![s] = "waitForced"]
            /\ UNCHANGED <<result, cur>>
       ELSE /\ EndCall(s, "ProcessLookupError")
            /\ UNCHANGED <<signals, proc>>
    /\ UNCHANGED <<cfgVars, snap, ncalls, nprocs, session, op, cfg, cmd, entry, hnd, pgid,
                   logged, atExpiry>>

\* lines 119-120: kill the group, then suspend in wait()
StopSigkill(s) ==
    /\ cur = s
    /\ pc[s] = "sigkill"
    /\ IF KillpgOk(pgid[s])
       THEN /\ signals' = [signals EXCEPT ![s] =
                               Append(@, KillpgCall(ForcedSignal, pgid[s], hnd[s]))]
            /\ proc' = [h \in Handles |->
                            IF h \in GroupMembers(pgid[s])
                            THEN [proc[h] EXCEPT !.killed = TRUE]
                            ELSE proc[h]]
            /\ pc' = [pc EXCEPT ![s] = "waitForced"]
            /\ cur' = 0
            /\ UNCHANGED result
       ELSE \* line 119: os.killpg raises inside the except block
            /\ EndCall(s, "ProcessLookupError")
            /\ UNCHANGED <<signals, proc>>
    /\ UNCHANGED <<cfgVars, snap, ncalls, nprocs, session, op, cfg, cmd, entry, hnd, pgid,
                   logged, atExpiry>>

\* lines 120-121: wait() returned
StopForcedDone(s) ==
    /\ cur = 0
    /\ pc[s] = "waitForced"
    /\ WaitDone(hnd[s])
    /\ logged' = [logged EXCEPT ![s] = @ \cup {"debug_stopped"}]
    /\ EndCall(s, "returned")
    /\ UNCHANGED <<cfgVars, snap, ncalls, osVars, session, op, cfg, cmd, entry, hnd, pgid,
                   signals, atExpiry>>

\* ---------------------------------------------------------------- get_snapshot
\* bytes.decode('utf-8'), strict: one-byte and two-byte sequences (the inputs
\* hold no lead byte of a longer one); any other byte raises UnicodeDecodeError
RECURSIVE DecodeUtf8(_)
DecodeUtf8(b) ==
    IF b = <<>> THEN [ok |-> TRUE, text |-> <<>>]
    ELSE IF b[1] < 128
    THEN LET r == DecodeUtf8(Tail(b))
         IN  [ok |-> r.ok, text |-> IF r.ok THEN <<b[1]>> \o r.text ELSE <<>>]
    ELSE IF b[1] \in 194..223 /\ Len(b) >= 2 /\ b[2] \in 128..191
    THEN LET r == DecodeUtf8(Tail(Tail(b)))
         IN  [ok |-> r.ok,
              text |-> IF r.ok THEN <<(b[1] - 192) * 64 + (b[2] - 128)>> \o r.text
                       ELSE <<>>]
    ELSE [ok |-> FALSE, text |-> <<>>]

\* the characters str.strip() removes, up to U+00FF
Whitespace == {9, 10, 11, 12, 13, 28, 29, 30, 31, 32, 133, 160}

RECURSIVE StripLeft(_)
StripLeft(x) ==
    IF x # <<>> /\ x[1] \in Whitespace THEN StripLeft(Tail(x)) ELSE x

RECURSIVE StripRight(_)
StripRight(x) ==
    IF x # <<>> /\ x[Len(x)] \in Whitespace
    THEN StripRight(SubSeq(x, 1, Len(x) - 1)) ELSE x

\* str.strip()
Strip(x) == StripRight(StripLeft(x))

\* mutant: a tool that cannot be started yields an empty image
RunFailsReturnsEmpty(size, run) ==
    [called |-> TRUE, size |-> size, run |-> run, outcome |-> "returned",
     ret |-> <<>>, log |-> {"debug_cmd", "error_still_output"}]

\* lines 55-64: subprocess.run raises (FileNotFoundError and the like, all
\* OSError) and get_snapshot has no handler
RunFails(size, run) ==
    [called |-> TRUE, size |-> size, run |-> run, outcome |-> "OSError",
     ret |-> <<>>, log |-> {"debug_cmd"}]

\* lines 65-68: decode and strip stderr, log it if anything is left, return stdout
RunEnds(size, run) ==
    LET d == DecodeUtf8(run.stderr) IN
    IF ~d.ok
    THEN [called |-> TRUE, size |-> size, run |-> run,
          outcome |-> "UnicodeDecodeError", ret |-> <<>>, log |-> {"debug_cmd"}]
    ELSE [called |-> TRUE, size |-> size, run |-> run, outcome |-> "returned",
          ret |-> run.stdout,
          log |-> IF Strip(d.text) # <<>>
                  THEN {"debug_cmd", "error_still_output"} ELSE {"debug_cmd"}]

\* lines 44-68: the whole call; it is synchronous and keeps nothing from one
\* call to the next, so one call per behaviour covers every call
GetSnapshot(size, run) ==
    /\ ~snap.called
    /\ snap' = IF run.started THEN RunEnds(size, run) ELSE RunFails(size, run)
    /\ UNCHANGED <<cfgVars, ncalls, osVars, session, cur, pc, callVars>>

\* ---------------------------------------------------------------- environment
\* the shell of the pipeline exits (on a signal or by itself)
ShellExit(h) ==
    /\ proc[h].st = "alive"
    /\ proc' = [proc EXCEPT ![h].st = "zombie"]
    /\ UNCHANGED <<cfgVars, snap, ncalls, nprocs, session, cur, pc, callVars>>

\* asyncio's child watcher reaps the shell and sets Process.returncode
Reap(h) ==
    /\ proc[h].st = "zombie"
    /\ proc' = [proc EXCEPT ![h].st = "reaped"]
    /\ UNCHANGED <<cfgVars, snap, ncalls, nprocs, session, cur, pc, callVars>>

\* raspivid and ffmpeg, the children of the shell, have both exited
KidsExit(h) ==
    /\ proc[h].kids
    /\ proc' = [proc EXCEPT ![h].kids = FALSE]
    /\ UNCHANGED <<cfgVars, snap, ncalls, nprocs, session, cur, pc, callVars>>

Next ==
    \/ \E s \in Sessions, c \in Configs : StartBegin(s, c)
    \/ \E s \in Sessions : StartSpawnOk(s)
    \/ \E s \in Sessions : StartSpawnFail(s)
    \/ \E s \in Sessions : StopResolve(s)
    \/ \E s \in Sessions : StopSigterm(s)
    \/ \E s \in Sessions : StopGracefulDone(s)
    \/ \E s \in Sessions : StopTimeout(s)
    \/ \E s \in Sessions : StopSigkill(s)
    \/ \E s \in Sessions : StopForcedDone(s)
    \/ \E h \in Handles : ShellExit(h)
    \/ \E h \in Handles : Reap(h)
    \/ \E h \in Handles : KidsExit(h)

Spec == Init /\ [][Next]_vars

\* start_stream alone, for every codec-profile selector
NextStart ==
    \/ \E s \in Sessions, c \in Configs : StartBegin(s, c)
    \/ \E s \in Sessions : StartSpawnOk(s)
    \/ \E s \in Sessions : StartSpawnFail(s)
    \/ \E h \in Handles : ShellExit(h)
    \/ \E h \in Handles : Reap(h)
    \/ \E h \in Handles : KidsExit(h)

SpecStart == InitStart /\ [][NextStart]_vars

\* get_snapshot alone, for every request and every run of the tool
NextSnapshot ==
    \E size \in ImageSizes, run \in ToolRuns : GetSnapshot(size, run)

SpecSnapshot == Init /\ [][NextSnapshot]_vars

TypeOK ==
    /\ config \in [Configs -> Nat]
    /\ session \in [Sessions -> Handles \cup {None}]
    /\ nprocs \in 0..MaxCalls
    /\ cur \in Sessions \cup {0}
    /\ pc \in [Sessions -> {"idle", "spawning", "sigterm", "waitGraceful",
                             "sigkill", "waitForced"}]
    /\ \A s \in Sessions : Len(signals[s]) <= 2

\* ---------------------------------------------------------------- properties
\* the last call on s was operation o and has ended
Ended(s, o) == pc[s] = "idle" /\ op[s] = o
Exceptions == {"AttributeError", "ProcessLookupError"}
SignalsSent(s) == {signals[s][i].sig : i \in 1..Len(signals[s])}
\* communicate() had finished when wait_for resolved
CommunicateDoneAt(x) == x.st = "reaped" /\ x.eof

\* C1: stop_stream on a session that has no process handle is a no-op: it
\* returns without raising, logs the warning, sends no signal and leaves the
\* session as it was, however often it is called.
C1_StopWithoutHandleIsNoOp ==
    \A s \in Sessions :
        (Ended(s, "stop") /\ entry[s] = None) =>
            /\ result[s] = "returned"
            /\ "warning_no_process" \in logged[s]
            /\ signals[s] = <<>>
            /\ session[s] = None

\* C2: when stop_stream has completed for a session that holds a handle, on the
\* graceful path and on the forced path alike, the session holds no handle.
C2_StopReleasesHandle ==
    \A s \in Sessions :
        (Ended(s, "stop") /\ entry[s] # None /\ result[s] = "returned") =>
            session[s] = None

\* C3: the bitrate substituted into every rendered command is 1000 times the
\* kilobit/second value the framework supplied, also when the same config
\* object is passed to start_stream again.
C3_BitrateNormalizedOnce ==
    \A s \in Sessions :
        op[s] = "start" => cmd[s].v_max_bitrate = 1000 * kbps0[cfg[s]]

\* C4: no exception escapes stop_stream; stated for the calls made on a session
\* that holds a handle (the shutdown timeout and the pipeline that has already
\* exited by itself are among them).
C4_StopAbsorbsFailures ==
    \A s \in Sessions :
        (op[s] = "stop" /\ entry[s] # None) => result[s] \notin Exceptions

\* C5: whenever stop_stream returns for a session that holds a handle, the
\* process it tracked has exited and has been waited for, after the graceful
\* signal as well as after the forced one.
C5_ReturnsOnlyAfterExit ==
    \A s \in Sessions :
        (Ended(s, "stop") /\ result[s] = "returned") =>
            /\ hnd[s] # None
            /\ proc[hnd[s]].st = "reaped"

C5_Witness ==
    \E s \in Sessions :
        /\ Ended(s, "stop") /\ result[s] = "returned"
        /\ Len(signals[s]) = 2
        /\ signals[s][2].sig = "SIGKILL"
        /\ signals[s][2].tracked = "alive"

\* C6 as stated: if the tracked process exits (and is reaped) within the bound
\* after the graceful signal, the call sends the graceful signal only.
C6_NoForcedKillIfExitedInTime ==
    \A s \in Sessions :
        (/\ op[s] = "stop"
         /\ Len(signals[s]) >= 1
         /\ signals[s][1].tracked = "alive"
         /\ atExpiry[s].st = "reaped") =>
            /\ "SIGKILL" \notin SignalsSent(s)
            /\ Len(signals[s]) = 1

\* C6 as amended: if communicate() finishes within the bound, that is the
\* tracked process has exited and its stderr pipe has reached end-of-file, the
\* call returns having sent exactly one signal, the graceful one.
C6_NoForcedKillIfDrainedInTime ==
    \A s \in Sessions :
        (op[s] = "stop" /\ CommunicateDoneAt(atExpiry[s])) =>
            /\ pc[s] = "idle"
            /\ result[s] = "returned"
            /\ Len(signals[s]) = 1
            /\ signals[s][1].sig = "SIGTERM"

C6_Witness ==
    \E s \in Sessions :
        /\ Ended(s, "stop") /\ result[s] = "returned"
        /\ CommunicateDoneAt(atExpiry[s])
        /\ Len(signals[s]) = 1
        /\ signals[s][1].tracked = "alive"

\* C7: the forced signal is sent only after the timeout has expired, as the
\* second signal after the graceful one and to the same group; the graceful
\* signal is sent at most once; once the timeout has expired on a process that
\* is still running the forced signal is what the call does next; and the call
\* returns on that path only when the process has exited.
C7_EscalatesOnceAfterTimeout ==
    \A s \in Sessions :
        /\ \A i \in 1..Len(signals[s]) :
               /\ signals[s][i].sig = "SIGTERM" <=> i = 1
               /\ signals[s][i].sig = "SIGKILL" <=> i = 2
        /\ Len(signals[s]) = 2 =>
               /\ atExpiry[s] # NoSnapshot
               /\ ~CommunicateDoneAt(atExpiry[s])
               /\ signals[s][2].target = signals[s][1].target
        /\ (op[s] = "stop" /\ atExpiry[s].st = "alive"
                /\ pc[s] \in {"waitForced", "idle"}) =>
               \/ Len(signals[s]) = 2
               \/ result[s] = "ProcessLookupError" /\ proc[hnd[s]].st # "alive"
        /\ (Ended(s, "stop") /\ result[s] = "returned" /\ Len(signals[s]) = 2) =>
               proc[hnd[s]].st = "reaped"

C7_Witness ==
    \E s \in Sessions :
        /\ Ended(s, "stop") /\ result[s] = "returned"
        /\ atExpiry[s].st = "alive"
        /\ Len(signals[s]) = 2
        /\ signals[s][1].sig = "SIGTERM"
        /\ signals[s][2].sig = "SIGKILL"
        /\ proc[hnd[s]].st = "reaped"

\* C8: start_stream returns True exactly when it has stored a new Process on
\* the session; when the spawn raises it returns False and the session is as
\* it was on entry (a session without a handle stays without one).
C8_TrueIffHandleRecorded ==
    \A s \in Sessions :
        Ended(s, "start") =>
            /\ result[s] \in {"true", "false"}
            /\ result[s] = "true" <=> session[s] # entry[s]
            /\ result[s] = "true" =>
                   session[s] # None /\ proc[session[s]].st # "unborn"
            /\ (result[s] = "false" /\ entry[s] = None) => session[s] = None

C8_Witness ==
    \E s, r \in Sessions :
        /\ Ended(s, "start") /\ result[s] = "false" /\ session[s] = None
        /\ Ended(r, "start") /\ result[r] = "true" /\ session[r] # None

\* C9: every signal of a stop_stream call goes, as a group signal, to the
\* process group the call resolved from the stored handle before signalling:
\* the group the shell of that handle leads, never the server's own group.
C9_SignalsResolvedGroup ==
    \A s \in Sessions :
      /\ pc[s] = "sigterm" =>
            /\ signals[s] = <<>>
            /\ hnd[s] # None /\ pgid[s] = proc[hnd[s]].pid
      /\ Len(signals[s]) >= 1 =>
            /\ op[s] = "stop" /\ hnd[s] # None
            /\ pgid[s] = proc[hnd[s]].pid
            /\ pgid[s] # ServerPgid
            /\ \A i \in 1..Len(signals[s]) :
                   /\ signals[s][i].scope = "group"
                   /\ signals[s][i].target = pgid[s]

C9_Witness ==
    \E s \in Sessions :
        /\ Len(signals[s]) = 2
        /\ signals[s][1].target = pgid[s]
        /\ signals[s][2].target = pgid[s]
        /\ pgid[s] = proc[hnd[s]].pid

\* C10: the handle of a session moves only absent -> running (a start_stream
\* that succeeded) -> stopping -> absent: a stored handle is never replaced by
\* another one without the session being without handle in between, and a
\* stop_stream that returns leaves the session without handle.
C10_HandleLifecycle ==
    [][\A s \in Sessions :
          /\ (session[s] = None /\ session'[s] # None) =>
                 (op'[s] = "start" /\ result'[s] = "true")
          /\ session[s] # None => session'[s] \in {session[s], None}
          /\ (pc[s] \in {"waitGraceful", "waitForced"} /\ pc'[s] = "idle"
                  /\ result'[s] = "returned") => session'[s] = None]_vars

\* the session whose coroutine takes this step (0: a step of the environment)
\* sends a signal in it
Signals(s) == Len(signals'[s]) > Len(signals[s])

\* C11: handles of different sessions are independent under every interleaving:
\* no two sessions hold the same handle, a start_stream or stop_stream step of
\* one session leaves the handle of every other session as it is, and no
\* signal it sends reaches the process group of another session's pipeline.
C11_SessionsIndependent ==
    [][\A s \in Sessions : \A r \in Sessions \ {s} :
          /\ session[s] # None => session[s] # session[r]
          /\ (pc'[s] # pc[s] \/ op'[s] # op[s] \/ result'[s] # result[s]) =>
                 session'[r] = session[r]
          /\ Signals(s) => session[r] \notin GroupMembers(pgid[s])]_vars

ProfileNames == <<"baseline", "main", "high">>

C14_SnapshotReturnsStdout ==
    (snap.called /\ snap.run.started) =>
        /\ snap.outcome = "returned"
        /\ snap.ret = snap.run.stdout
        /\ (\E i \in 1..Len(snap.run.stderr) : snap.run.stderr[i] = 69) =>
               "error_still_output" \in snap.log

\* C15: when the tool cannot be started, get_snapshot raises to its caller and
\* returns nothing, in particular no empty byte string.
C15_SnapshotPropagatesStartFailure ==
    (snap.called /\ ~snap.run.started) =>
        /\ snap.outcome = "OSError"
        /\ snap.outcome # "returned"

C15_Witness ==
    /\ snap.called
    /\ ~snap.run.started
    /\ snap.outcome = "OSError"

\* C16: every signal a stop_stream sends goes to the group of the pipeline that
\* start_stream launched for the same session, and that pipeline has not been
\* waited to its exit before: the group signalled holds that pipeline and no
\* other, whatever process identifiers the operating system has handed out again.
C16_SignalsOwnLivePipeline ==
    [][\A s \in Sessions :
          Signals(s) =>
              /\ hnd[s] # None
              /\ hnd[s] = session[s]
              /\ proc[hnd[s]].st # "reaped" \/ proc[hnd[s]].kids
              /\ GroupMembers(pgid[s]) = {hnd[s]}]_vars

====
